---- MODULE Spec2Model ----
(***************************************************************************)
(* XY-Cut++ reading-order detection (home-still/xycut-plus-plus).          *)
(*                                                                         *)
(* compute_order = partition_by_mask ; recursive_cut ; merged_masked_      *)
(* elements.  The recursion of recursive_cut is unfolded on an explicit    *)
(* stack of pending calls (frames), the loop of merged_masked_elements is  *)
(* taken one masked element at a time.                                     *)
(*                                                                         *)
(* Numbers.  The source computes in f32.  The model computes with exact    *)
(* integers: coordinates are integers, a center (x1+x2)/2 is kept doubled  *)
(* (cx2 = x1+x2), histogram_resolution_scale is the fraction               *)
(* scale_num/scale_den, and a weighted distance is kept multiplied by      *)
(* 10*max_dim (a positive factor that is the same for every candidate of   *)
(* one masked element).  The inputs are chosen so that every cut           *)
(* coordinate is an integer (CutExact checks it).                          *)
(***************************************************************************)
EXTENDS Integers, Sequences, FiniteSets, TLC

VARIABLES
    elements,       \* compute_order: elements (sequence of element records)
    rect,           \* compute_order: <<x_min, y_min, x_max, y_max>>
    config,         \* XYCut.config
    pc,             \* position in compute_order
    regular,        \* partition.regular_elements
    masked,         \* partition.masked_elements
    stack,          \* pending recursive_cut calls, first = next to run
    regular_order,  \* ids returned so far by recursive_cut, in order
    last_cut,       \* what the last recursive_cut call did (its eprintln trace)
    sort_masked,    \* merged_masked_elements: masked elements still to insert
    result,         \* merged_masked_elements: result
    last_insert,    \* what the last insertion did
    histogram,      \* find_largest_gap: histogram
    min_gap_size,   \* find_largest_gap: min_gap_size
    gap             \* find_largest_gap: returned Option<usize>, {} = None

vars == <<elements, rect, config, pc, regular, masked, stack, regular_order,
          last_cut, sort_masked, result, last_insert, histogram, min_gap_size, gap>>

----------------------------------------------------------------------------
(* Arithmetic helpers                                                      *)

Max(a, b) == IF a >= b THEN a ELSE b

Min(a, b) == IF a <= b THEN a ELSE b

Abs(a) == IF a < 0 THEN -a ELSE a

\* f32::floor of a/b for b > 0
FloorDiv(a, b) == a \div b

\* f32::ceil of a/b for b > 0
CeilDiv(a, b) == -((-a) \div b)

\* Option<T>: None is {}, Some(x) is {x}
None == {}

Some(x) == {x}

Unwrap(o) == CHOOSE x \in o : TRUE

----------------------------------------------------------------------------
(* traits.rs: the BoundingBox capability                                   *)

Labels == {"CrossLayout", "HorizontalTitle", "VerticalTitle", "Vision", "Regular"}

\* An element: id, bounds (x1, y1, x2, y2), semantic_label, should_mask.
Elem(i, a, b, c, d, l, m) ==
    [id |-> i, x1 |-> a, y1 |-> b, x2 |-> c, y2 |-> d, label |-> l, mask |-> m]

\* 2 * center().0 and 2 * center().1 (the box's midpoint)
Cx2(e) == e.x1 + e.x2

Cy2(e) == e.y1 + e.y2

Width(e) == e.x2 - e.x1

Height(e) == e.y2 - e.y1

Ids(s) == [i \in 1..Len(s) |-> s[i].id]

IdSet(s) == {s[i].id : i \in 1..Len(s)}

----------------------------------------------------------------------------
(* histogram.rs                                                            *)

\* Whether a span [c1, c2] increments bin b: start_bin <= b < end_bin with
\* start_bin = floor((c1 - min) / bin).max(0) as usize,
\* end_bin = ceil((c2 - min) / bin).min(resolution) as usize (a negative
\* float casts to 0), and bin = (max - min) / resolution.
SpanTouches(b, c1, c2, lo, hi, resolution) ==
    /\ Max(FloorDiv((c1 - lo) * resolution, hi - lo), 0) <= b
    /\ b < Max(Min(CeilDiv((c2 - lo) * resolution, hi - lo), resolution), 0)

\* The first k bins of the histogram of the spans (a sequence of <<c1, c2>>).
RECURSIVE HistogramBins(_, _, _, _, _)
HistogramBins(spans, lo, hi, resolution, k) ==
    IF k = 0 THEN <<>>
    ELSE Append(HistogramBins(spans, lo, hi, resolution, k - 1),
                Cardinality({i \in 1..Len(spans) :
                    SpanTouches(k - 1, spans[i][1], spans[i][2], lo, hi, resolution)}))

\* histogram[b + 1] is the count of bin b.
build_horizontal_histogram(els, y_min, y_max, resolution) ==
    HistogramBins([i \in 1..Len(els) |-> <<els[i].y1, els[i].y2>>],
                  y_min, y_max, resolution, resolution)

build_vertical_histogram(els, x_min, x_max, resolution) ==
    HistogramBins([i \in 1..Len(els) |-> <<els[i].x1, els[i].x2>>],
                  x_min, x_max, resolution, resolution)

\* The four locals of find_largest_gap before the loop.
GapInit ==
    [max_gap_size |-> 0, max_gap_center |-> None,
     current_gap_size |-> 0, current_gap_start |-> None]

\* One iteration of the loop of find_largest_gap, at bin i with `count`.
GapLoopBody(st, i, count, min_gap) ==
    IF count = 0
    THEN [st EXCEPT !.current_gap_start = IF st.current_gap_start = None
                                          THEN Some(i) ELSE st.current_gap_start,
                    !.current_gap_size = st.current_gap_size + 1]
    ELSE IF st.current_gap_size >= min_gap /\ st.current_gap_size > st.max_gap_size
         THEN [max_gap_size |-> st.current_gap_size,
               max_gap_center |->
                   IF st.current_gap_start # None
                   THEN Some(Unwrap(st.current_gap_start) + st.current_gap_size \div 2)
                   ELSE st.max_gap_center,
               current_gap_size |-> 0,
               current_gap_start |-> None]
         ELSE st

RECURSIVE GapLoop(_, _, _, _)
GapLoop(hist, k, st, min_gap) ==
    IF k > Len(hist) THEN st
    ELSE GapLoop(hist, k + 1, GapLoopBody(st, k - 1, hist[k], min_gap), min_gap)

\* find_largest_gap: Some(bin index) or None.
find_largest_gap(hist, min_gap) ==
    LET st == GapLoop(hist, 1, GapInit, min_gap)
    IN  IF /\ st.current_gap_size >= min_gap
           /\ st.current_gap_size > st.max_gap_size
           /\ st.current_gap_start # None
        THEN Some(Unwrap(st.current_gap_start) + st.current_gap_size \div 2)
        ELSE st.max_gap_center

----------------------------------------------------------------------------
(* utils.rs, matching.rs: the partitioner                                  *)

ISOLATION_THRESHOLD_PX == 50

\* Boxes overlap on both axes (strictly).
BoxesOverlap(a, b) ==
    (a.x1 < b.x2 /\ a.x2 > b.x1) /\ (a.y1 < b.y2 /\ a.y2 > b.y1)

count_overlap(element, all_elements) ==
    Cardinality({i \in 1..Len(all_elements) :
        /\ all_elements[i].id # element.id
        /\ BoxesOverlap(element, all_elements[i])})

\* Insertion of x into the ascending sequence s, after its equals.
RECURSIVE InsertSorted(_, _)
InsertSorted(s, x) ==
    IF s = <<>> THEN <<x>>
    ELSE IF x < s[1] THEN <<x>> \o s
    ELSE <<s[1]>> \o InsertSorted(Tail(s), x)

RECURSIVE SortedWidths(_, _)
SortedWidths(els, k) ==
    IF k = 0 THEN <<>> ELSE InsertSorted(SortedWidths(els, k - 1), Width(els[k]))

\* 2 * compute_median_width(elements)
compute_median_width2(els) ==
    IF els = <<>> THEN 0
    ELSE LET widths == SortedWidths(els, Len(els))
             len == Len(widths)
         IN  IF len % 2 = 1 THEN 2 * widths[len \div 2 + 1]
             ELSE widths[len \div 2] + widths[len \div 2 + 1]

\* The axis gap between two boxes (dx or dy of distance_to_nearest_text and
\* of compute_distance_with_early_exit).
AxisGap(m1, m2, r1, r2) ==
    IF m2 < r1 THEN r1 - m2 ELSE IF m1 > r2 THEN m1 - r2 ELSE 0

\* distance_to_nearest_text(element, all) > ISOLATION_THRESHOLD_PX; the
\* distance is INFINITY when no other element has should_mask false.
IsIsolated(element, all_elements) ==
    \A i \in 1..Len(all_elements) :
        LET other == all_elements[i]
            dx == AxisGap(element.x1, element.x2, other.x1, other.x2)
            dy == AxisGap(element.y1, element.y2, other.y1, other.y2)
        IN  (other.id # element.id /\ ~other.mask)
                => dx * dx + dy * dy > ISOLATION_THRESHOLD_PX * ISOLATION_THRESHOLD_PX

\* normalized_distance <= 0.2, the distance of the center to
\* (page_width / 2, page_height / 2) over the page diagonal; a zero diagonal
\* gives a NaN or infinite quotient, which is not <= 0.2.
IsCentral(element, page_width, page_height) ==
    LET dx2 == Cx2(element) - page_width
        dy2 == Cy2(element) - page_height
        diag_sq == page_width * page_width + page_height * page_height
    IN  diag_sq > 0 /\ 25 * (dx2 * dx2 + dy2 * dy2) <= 4 * diag_sq

\* IsMasked whose central-and-isolated rule does not ask for should_mask.
IsMaskedCentralIsolatedUnflagged(element, all_elements, page_width, page_height) ==
    \/ element.mask
    \/ (20 * Width(element) > 13 * compute_median_width2(all_elements)
            /\ count_overlap(element, all_elements) >= 2)
    \/ (IsCentral(element, page_width, page_height) /\ IsIsolated(element, all_elements))

\* The test of partition_by_mask's loop body: the element is pushed to
\* masked_elements (TRUE) or to regular_elements (FALSE).
IsMasked(element, all_elements, page_width, page_height) ==
    LET median2 == compute_median_width2(all_elements)
        is_cross_layout == /\ 20 * Width(element) > 13 * median2
                           /\ count_overlap(element, all_elements) >= 2
        is_geometric_mask == /\ IsCentral(element, page_width, page_height)
                             /\ IsIsolated(element, all_elements)
                             /\ element.mask
    IN  element.mask \/ is_cross_layout \/ is_geometric_mask

\* partition_by_mask whose regular group is decided by should_mask alone.
partition_by_mask_flag_only(els, page_width, page_height) ==
    [masked_elements |->
         SelectSeq(els, LAMBDA e : IsMasked(e, els, page_width, page_height)),
     regular_elements |-> SelectSeq(els, LAMBDA e : ~e.mask)]

partition_by_mask(els, page_width, page_height) ==
    [masked_elements |->
         SelectSeq(els, LAMBDA e : IsMasked(e, els, page_width, page_height)),
     regular_elements |->
         SelectSeq(els, LAMBDA e : ~IsMasked(e, els, page_width, page_height))]

----------------------------------------------------------------------------
(* core.rs: the recursive cutter                                           *)

\* ((max - min) * histogram_resolution_scale) as usize
Resolution(lo, hi, cfg) == Max(((hi - lo) * cfg.scale_num) \div cfg.scale_den, 0)

\* (min_cut_threshold * histogram_resolution_scale) as usize
MinGapBins(cfg) == Max((cfg.min_cut_threshold * cfg.scale_num) \div cfg.scale_den, 0)

\* min + (bin_index / resolution) * (max - min)
CutCoord(lo, hi, bin_index, resolution) ==
    lo + (bin_index * (hi - lo)) \div resolution

find_horizontal_cut(els, y_min, y_max, cfg) ==
    LET resolution == Resolution(y_min, y_max, cfg)
        hist == build_horizontal_histogram(els, y_min, y_max, resolution)
        bin_index == find_largest_gap(hist, MinGapBins(cfg))
    IN  IF bin_index # None
        THEN Some(CutCoord(y_min, y_max, Unwrap(bin_index), resolution))
        ELSE None

find_vertical_cut(els, x_min, x_max, cfg) ==
    LET resolution == Resolution(x_min, x_max, cfg)
        hist == build_vertical_histogram(els, x_min, x_max, resolution)
        bin_index == find_largest_gap(hist, MinGapBins(cfg))
    IN  IF bin_index # None
        THEN Some(CutCoord(x_min, x_max, Unwrap(bin_index), resolution))
        ELSE None

\* <<top, bottom>>
split_horizontal(els, y_cut) ==
    <<SelectSeq(els, LAMBDA e : Cy2(e) < 2 * y_cut),
      SelectSeq(els, LAMBDA e : ~(Cy2(e) < 2 * y_cut))>>

\* <<left, right>>
split_vertical(els, x_cut) ==
    <<SelectSeq(els, LAMBDA e : Cx2(e) < 2 * x_cut),
      SelectSeq(els, LAMBDA e : ~(Cx2(e) < 2 * x_cut))>>

\* The sum of width / height over the elements of nonzero height that are
\* CrossLayout (cross = TRUE) or not (cross = FALSE), as <<num, den>>.
RECURSIVE DensitySum(_, _, _)
DensitySum(els, k, cross) ==
    IF k = 0 THEN <<0, 1>>
    ELSE LET e == els[k]
             rest == DensitySum(els, k - 1, cross)
         IN  IF Height(e) = 0 \/ ((e.label = "CrossLayout") # cross)
             THEN rest
             ELSE <<rest[1] * Height(e) + Width(e) * rest[2], rest[2] * Height(e)>>

\* tau_d as <<num, den>>
compute_density_ratio(els) ==
    LET cross_layout_density == DensitySum(els, Len(els), TRUE)
        single_layout_density == DensitySum(els, Len(els), FALSE)
    IN  IF single_layout_density[1] = 0 THEN <<1, 1>>
        ELSE <<cross_layout_density[1] * single_layout_density[2],
               cross_layout_density[2] * single_layout_density[1]>>

\* try_vertical_first with tau_d >= 0.9
try_vertical_first_at_least(els) ==
    LET tau_d == compute_density_ratio(els)
    IN  10 * tau_d[1] >= 9 * tau_d[2]

\* tau_d > 0.9
try_vertical_first(els) ==
    LET tau_d == compute_density_ratio(els)
    IN  10 * tau_d[1] > 9 * tau_d[2]

\* PositionLess that compares the vertical centers alone.
PositionLessByYOnly(a, b, cfg) == Cy2(a) < Cy2(b)

\* The comparator of sort_by_position, as "a is less than b".
PositionLess(a, b, cfg) ==
    IF Abs(Cy2(a) - Cy2(b)) < 2 * cfg.same_row_tolerance
    THEN Cx2(a) < Cx2(b)
    ELSE Cy2(a) < Cy2(b)

\* label_priority
label_priority(label) ==
    CASE label = "CrossLayout" -> 0
      [] label = "HorizontalTitle" -> 1
      [] label = "VerticalTitle" -> 1
      [] label = "Vision" -> 2
      [] label = "Regular" -> 3

\* The comparator of merged_masked_elements' sort_masked.sort_by.
MaskedLess(a, b, cfg) ==
    IF label_priority(a.label) # label_priority(b.label)
    THEN label_priority(a.label) < label_priority(b.label)
    ELSE PositionLess(a, b, cfg)

IsLess(by_priority, a, b, cfg) ==
    IF by_priority THEN MaskedLess(a, b, cfg) ELSE PositionLess(a, b, cfg)

\* slice::sort_by on a slice of at most 20 elements: the standard library's
\* stable insertion sort, which moves each element left past the elements
\* it is less than.
RECURSIVE InsertTail(_, _, _, _)
InsertTail(s, x, by_priority, cfg) ==
    IF s = <<>> THEN <<x>>
    ELSE IF IsLess(by_priority, x, s[Len(s)], cfg)
         THEN InsertTail(SubSeq(s, 1, Len(s) - 1), x, by_priority, cfg) \o <<s[Len(s)]>>
         ELSE Append(s, x)

RECURSIVE SortBy(_, _, _, _)
SortBy(s, k, by_priority, cfg) ==
    IF k = 0 THEN <<>>
    ELSE InsertTail(SortBy(s, k - 1, by_priority, cfg), s[k], by_priority, cfg)

sort_by_position(els, cfg) == Ids(SortBy(els, Len(els), FALSE, cfg))

Frame(els, x_min, y_min, x_max, y_max) ==
    [els |-> els, x_min |-> x_min, y_min |-> y_min, x_max |-> x_max, y_max |-> y_max]

\* The two recursive calls after a vertical cut at x_cut.
VerticalCalls(f, x_cut) ==
    LET parts == split_vertical(f.els, x_cut)
    IN  <<Frame(parts[1], f.x_min, f.y_min, x_cut, f.y_max),
          Frame(parts[2], x_cut, f.y_min, f.x_max, f.y_max)>>

\* The two recursive calls after a horizontal cut at y_cut.
HorizontalCalls(f, y_cut) ==
    LET parts == split_horizontal(f.els, y_cut)
    IN  <<Frame(parts[1], f.x_min, f.y_min, f.x_max, y_cut),
          Frame(parts[2], f.x_min, y_cut, f.x_max, f.y_max)>>

\* One call of recursive_cut on frame f, without its recursive calls: what
\* it does (kind), the ids it returns itself (ids) and the calls it makes
\* (calls, in order).
recursive_cut(f, cfg) ==
    LET v_cut == find_vertical_cut(f.els, f.x_min, f.x_max, cfg)
        h_cut == find_horizontal_cut(f.els, f.y_min, f.y_max, cfg)
        leaf(kind, ids) == [kind |-> kind, axis_first |-> "-", cut |-> None,
                            ids |-> ids, calls |-> <<>>]
    IN  IF Len(f.els) = 0 THEN leaf("empty", <<>>)
        ELSE IF Len(f.els) = 1 THEN leaf("single", <<f.els[1].id>>)
        ELSE IF try_vertical_first(f.els) /\ v_cut # None
        THEN [kind |-> "vertical", axis_first |-> "vertical", cut |-> v_cut,
              ids |-> <<>>, calls |-> VerticalCalls(f, Unwrap(v_cut))]
        ELSE IF h_cut # None
        THEN [kind |-> "horizontal",
              axis_first |-> IF try_vertical_first(f.els) THEN "vertical" ELSE "horizontal",
              cut |-> h_cut,
              ids |-> <<>>, calls |-> HorizontalCalls(f, Unwrap(h_cut))]
        ELSE IF v_cut # None
        THEN [kind |-> "vertical", axis_first |-> "horizontal", cut |-> v_cut,
              ids |-> <<>>, calls |-> VerticalCalls(f, Unwrap(v_cut))]
        ELSE [leaf("sort", sort_by_position(f.els, cfg)) EXCEPT
                 !.axis_first = IF try_vertical_first(f.els)
                                THEN "vertical" ELSE "horizontal"]

----------------------------------------------------------------------------
(* utils.rs, core.rs: the reinsertion matcher                              *)

\* An f32 distance, kept multiplied by 10 * max_dim: a finite value, or
\* INFINITY.
Fin(v) == [inf |-> FALSE, v |-> v]

Infinity == [inf |-> TRUE, v |-> 0]

\* a > b and a < b on such values
DistGt(a, b) == IF b.inf THEN FALSE ELSE (a.inf \/ a.v > b.v)

DistLt(a, b) == DistGt(b, a)

\* 10 * (mult_w1, mult_w2, mult_w3, mult_w4)
Multipliers10(label, is_horizontal) ==
    CASE label = "CrossLayout" -> <<10, 10, 1, 10>>
      [] label \in {"HorizontalTitle", "VerticalTitle"} ->
            IF is_horizontal THEN <<10, 1, 1, 10>> ELSE <<2, 1, 10, 10>>
      [] OTHER -> <<10, 10, 10, 1>>

\* The four terms w_i * phi_i, each multiplied by 10 * max_dim (max_dim > 0).
DistanceTerms(m, r) ==
    LET is_cross_layout == m.label = "CrossLayout"
        mw == Width(m)
        mh == Height(m)
        max_dim == Max(mw, mh)
        mult == Multipliers10(m.label, mw > mh)
        phi1 == IF BoxesOverlap(m, r) THEN 0 ELSE 100
        dx == AxisGap(m.x1, m.x2, r.x1, r.x2)
        dy == AxisGap(m.y1, m.y2, r.y1, r.y2)
        phi2 == IF is_cross_layout THEN dx + dy ELSE Min(dx, dy)
        phi3 == IF is_cross_layout
                THEN (IF m.y1 > r.y2 THEN m.y1 - r.y2 ELSE -m.y2)
                ELSE (IF r.y1 >= m.y2 THEN r.y1 - m.y1 ELSE (m.y2 - r.y1) * 10)
        phi4 == r.x1
    IN  <<max_dim * max_dim * max_dim * mult[1] * phi1,
          max_dim * max_dim * mult[2] * phi2,
          max_dim * mult[3] * phi3,
          mult[4] * phi4>>

\* compute_distance_with_early_exit.  A masked element of max_dim = 0 has
\* base_w4 = 1/0: with the non-negative coordinates of the model its total
\* is INFINITY or NaN, and any earlier return is a value > current_best,
\* all of which the caller's `distance < best_distance` rejects alike.
compute_distance_with_early_exit(m, r, current_best) ==
    LET t == DistanceTerms(m, r)
        d1 == Fin(t[1])
        d2 == Fin(t[1] + t[2])
        d3 == Fin(t[1] + t[2] + t[3])
    IN  IF Max(Width(m), Height(m)) = 0 THEN Infinity
        ELSE IF DistGt(d1, current_best) THEN d1
        ELSE IF DistGt(d2, current_best) THEN d2
        ELSE IF DistGt(d3, current_best) THEN d3
        ELSE Fin(t[1] + t[2] + t[3] + t[4])

\* regular_elements.iter().find(|e| e.id() == id): Some(element) or None
FindById(els, id) ==
    IF \E i \in 1..Len(els) : els[i].id = id
    THEN Some(els[CHOOSE i \in 1..Len(els) :
                     els[i].id = id /\ \A j \in 1..(i - 1) : els[j].id # id])
    ELSE None

\* The loop over regular_order of merged_masked_elements, from index k on:
\* <<best_distance, best_regular_id>>.
RECURSIVE AnchorLoop(_, _, _, _, _)
AnchorLoop(m, order, regular_elements, k, best) ==
    IF k > Len(order) THEN best
    ELSE LET found == FindById(regular_elements, order[k])
             r == Unwrap(found)
             distance == compute_distance_with_early_exit(m, r, best[1])
         IN  IF found = None \/ label_priority(r.label) < label_priority(m.label)
             THEN AnchorLoop(m, order, regular_elements, k + 1, best)
             ELSE IF DistLt(distance, best[1])
             THEN AnchorLoop(m, order, regular_elements, k + 1,
                             <<distance, Some(order[k])>>)
             ELSE AnchorLoop(m, order, regular_elements, k + 1, best)

\* best_regular_id after the loop
BestRegularId(m, order, regular_elements) ==
    AnchorLoop(m, order, regular_elements, 1, <<Infinity, None>>)[2]

\* result.iter().position(|&id| id == x), 0-based: Some(index) or None
Position(s, x) ==
    IF \E i \in 1..Len(s) : s[i] = x
    THEN Some((CHOOSE i \in 1..Len(s) : s[i] = x /\ \A j \in 1..(i - 1) : s[j] # x) - 1)
    ELSE None

\* Vec::insert(index, x), index 0-based
VecInsert(s, index, x) ==
    SubSeq(s, 1, index) \o <<x>> \o SubSeq(s, index + 1, Len(s))

\* The index at which the matched branch inserts, given the anchor's position.
MatchedInsertIndex(position) == position + 1

compute_page_width(els) ==
    IF els = <<>> THEN 0
    ELSE LET x_min == CHOOSE v \in {els[i].x1 : i \in 1..Len(els)} :
                          \A i \in 1..Len(els) : v <= els[i].x1
             x_max == CHOOSE v \in {els[i].x2 : i \in 1..Len(els)} :
                          \A i \in 1..Len(els) : v >= els[i].x2
         IN  x_max - x_min

SAME_COLUMN_PX == 100

\* insert_pos of the branch without a matched anchor
FallbackInsertPos(m, res, regular_elements) ==
    LET page_width == compute_page_width(regular_elements)
        is_spanning == 10 * Width(m) > 6 * page_width
        hit(i) ==
            LET found == FindById(regular_elements, res[i])
                r == Unwrap(found)
                same_column == Abs(r.x1 - m.x1) < SAME_COLUMN_PX
            IN  /\ found # None
                /\ Cy2(r) > Cy2(m)
                /\ (is_spanning \/ same_column)
    IN  IF \E i \in 1..Len(res) : hit(i)
        THEN (CHOOSE i \in 1..Len(res) : hit(i) /\ \A j \in 1..(i - 1) : ~hit(j)) - 1
        ELSE Len(res)

\* InsertMasked without the branch for a masked element with no anchor.
InsertMaskedMatchedOnly(m, res, order, regular_elements) ==
    LET best_regular_id == BestRegularId(m, order, regular_elements)
        position == Position(res, Unwrap(best_regular_id))
    IN  IF best_regular_id # None /\ position # None
        THEN VecInsert(res, MatchedInsertIndex(Unwrap(position)), m.id)
        ELSE res

\* One iteration of `for masked in &sort_masked`: the new result.
InsertMasked(m, res, order, regular_elements) ==
    LET best_regular_id == BestRegularId(m, order, regular_elements)
        position == Position(res, Unwrap(best_regular_id))
    IN  IF best_regular_id # None
        THEN (IF position # None
              THEN VecInsert(res, MatchedInsertIndex(Unwrap(position)), m.id)
              ELSE res)
        ELSE VecInsert(res, FallbackInsertPos(m, res, regular_elements), m.id)

----------------------------------------------------------------------------
(* Inputs                                                                  *)

\* The largest number of elements on a page.
MaxElems == 3

\* The elements a page is made of: two columns of text blocks (left column
\* x 0..4, right column x 6..10) on a 10 x 10 page, titles, figures and wide
\* blocks.  An element's id is its number here.
Templates ==
    { Elem(11, 0, 2, 4, 4, "Regular", FALSE),          \* left column, top
      Elem(12, 6, 2, 10, 4, "Regular", FALSE),         \* right column, top
      Elem(13, 0, 5, 4, 7, "Regular", FALSE),          \* left column, middle
      Elem(14, 0, 8, 4, 10, "Regular", FALSE),         \* left column, bottom
      Elem(15, 1, 0, 9, 1, "CrossLayout", TRUE),       \* title, 80% of the width
      Elem(16, 0, 4, 4, 5, "HorizontalTitle", TRUE),   \* heading in the left column
      Elem(17, 7, 3, 9, 6, "Vision", TRUE),            \* figure over the right column
      Elem(18, 6, 7, 10, 9, "Regular", TRUE),          \* masked block, lowest priority
      Elem(19, 6, 5, 10, 7, "CrossLayout", FALSE),     \* unmasked cross-layout block
      Elem(20, 0, 3, 10, 6, "Regular", FALSE),         \* wide block across both columns
      Elem(21, 0, 1, 4, 10, "Regular", FALSE),         \* full-height left column
      Elem(22, 6, 1, 10, 10, "Regular", FALSE) }       \* full-height right column

\* Sequences of at most n distinct templates.
Pages(n) ==
    {s \in UNION {[1..k -> Templates] : k \in 0..n} :
        \A i, j \in 1..Len(s) : i # j => s[i] # s[j]}

\* Page rectangles <<x_min, y_min, x_max, y_max>>: the page, and a rectangle
\* without positive width.
PageRects == {<<0, 0, 10, 10>>, <<0, 0, 0, 10>>}

Config(t, n, d, r) ==
    [min_cut_threshold |-> t, scale_num |-> n, scale_den |-> d, same_row_tolerance |-> r]

\* Configurations: one bin per pixel, a minimum gap of 1 or 2 pixels, a row
\* tolerance of 1 or 3 pixels.
Configs == {Config(1, 1, 1, 1), Config(2, 1, 1, 1), Config(1, 1, 1, 3), Config(2, 1, 1, 3)}

NoCut == [kind |-> "none", axis_first |-> "-", cut |-> None, n |-> 0,
          sizes |-> <<>>, same_call |-> FALSE]

NoInsert == [id |-> None, anchor |-> None, before |-> <<>>]

----------------------------------------------------------------------------
(* compute_order as a state machine                                        *)

InitWith(els, r, cfg) ==
    /\ elements = els
    /\ rect = r
    /\ config = cfg
    /\ pc = "start"
    /\ regular = <<>>
    /\ masked = <<>>
    /\ stack = <<>>
    /\ regular_order = <<>>
    /\ last_cut = NoCut
    /\ sort_masked = <<>>
    /\ result = <<>>
    /\ last_insert = NoInsert
    /\ histogram = <<>>
    /\ min_gap_size = 0
    /\ gap = None

Init ==
    \E els \in Pages(MaxElems), r \in PageRects, cfg \in Configs : InitWith(els, r, cfg)

\* compute_order up to the call of recursive_cut: partition_by_mask.
Partition ==
    /\ pc = "start"
    /\ LET page_width == rect[3] - rect[1]
           page_height == rect[4] - rect[2]
           partition == partition_by_mask(elements, page_width, page_height)
       IN  /\ regular' = partition.regular_elements
           /\ masked' = partition.masked_elements
           /\ stack' = <<Frame(partition.regular_elements,
                               rect[1], rect[2], rect[3], rect[4])>>
    /\ pc' = "cut"
    /\ UNCHANGED <<elements, rect, config, regular_order, last_cut, sort_masked,
                   result, last_insert, histogram, min_gap_size, gap>>

\* The next pending call of recursive_cut.  A call that makes a recursive
\* call with its own arguments never returns (the recursion exhausts the
\* call stack): pc = "diverged".
CutStep ==
    /\ pc = "cut"
    /\ stack # <<>>
    /\ \E f \in {Head(stack)} : \E call \in {recursive_cut(f, config)} :
       LET same_call == \E i \in 1..Len(call.calls) : call.calls[i] = f
       IN  /\ last_cut' = [kind |-> call.kind, axis_first |-> call.axis_first,
                           cut |-> call.cut, n |-> Len(f.els),
                           sizes |-> [i \in 1..Len(call.calls) |-> Len(call.calls[i].els)],
                           same_call |-> same_call]
           /\ regular_order' = regular_order \o call.ids
           /\ stack' = IF same_call THEN stack ELSE call.calls \o Tail(stack)
           /\ pc' = IF same_call THEN "diverged" ELSE "cut"
    /\ UNCHANGED <<elements, rect, config, regular, masked, sort_masked,
                   result, last_insert, histogram, min_gap_size, gap>>

\* merged_masked_elements up to its loop: result and sort_masked.
StartMerge ==
    /\ pc = "cut"
    /\ stack = <<>>
    /\ result' = regular_order
    /\ sort_masked' = SortBy(masked, Len(masked), TRUE, config)
    /\ pc' = "merge"
    /\ UNCHANGED <<elements, rect, config, regular, masked, stack, regular_order,
                   last_cut, last_insert, histogram, min_gap_size, gap>>

\* One iteration of the loop of merged_masked_elements.
Insert ==
    /\ pc = "merge"
    /\ sort_masked # <<>>
    /\ LET m == Head(sort_masked)
       IN  /\ result' = InsertMasked(m, result, regular_order, regular)
           /\ last_insert' = [id |-> Some(m.id),
                              anchor |-> BestRegularId(m, regular_order, regular),
                              before |-> result]
    /\ sort_masked' = Tail(sort_masked)
    /\ UNCHANGED <<elements, rect, config, pc, regular, masked, stack, regular_order,
                   last_cut, histogram, min_gap_size, gap>>

\* merged_masked_elements returns result, and compute_order returns it.
Return ==
    /\ pc = "merge"
    /\ sort_masked = <<>>
    /\ pc' = "done"
    /\ UNCHANGED <<elements, rect, config, regular, masked, stack, regular_order,
                   last_cut, sort_masked, result, last_insert, histogram,
                   min_gap_size, gap>>

Next == Partition \/ CutStep \/ StartMerge \/ Insert \/ Return

Spec == Init /\ [][Next]_vars

----------------------------------------------------------------------------
(* find_largest_gap on its own                                             *)

\* The longest histogram, and the largest count of a bin.
MaxBins == 7

MaxCount == 1

MaxMinGap == 3

Histograms == UNION {[1..n -> 0..MaxCount] : n \in 0..MaxBins}

InitGap ==
    /\ \E h \in Histograms, g \in 0..MaxMinGap :
          /\ histogram = h
          /\ min_gap_size = g
    /\ gap = None
    /\ pc = "gap"
    /\ elements = <<>>
    /\ rect = <<0, 0, 0, 0>>
    /\ config = Config(0, 1, 1, 0)
    /\ regular = <<>>
    /\ masked = <<>>
    /\ stack = <<>>
    /\ regular_order = <<>>
    /\ last_cut = NoCut
    /\ sort_masked = <<>>
    /\ result = <<>>
    /\ last_insert = NoInsert

FindGap ==
    /\ pc = "gap"
    /\ gap' = find_largest_gap(histogram, min_gap_size)
    /\ pc' = "gap_done"
    /\ UNCHANGED <<elements, rect, config, regular, masked, stack, regular_order,
                   last_cut, sort_masked, result, last_insert, histogram, min_gap_size>>

SpecGap == InitGap /\ [][FindGap]_vars

----------------------------------------------------------------------------
(* Claims about compute_order                                              *)

\* s is a permutation of t, for t without repetition
IsPermutation(s, t) ==
    /\ Len(s) = Len(t)
    /\ {s[i] : i \in 1..Len(s)} = {t[i] : i \in 1..Len(t)}

\* The subsequence of s made of the elements whose id is in ids
Restrict(s, ids) == SelectSeq(s, LAMBDA e : e.id \in ids)

InvalidRect == rect[3] <= rect[1] \/ rect[4] <= rect[2]

\* C1: the sequence compute_order returns holds every input id exactly once
\* and nothing else.
C1_OutputIsPermutation ==
    pc = "done" => IsPermutation(result, Ids(elements))

\* C1 witness: a page of regular and masked elements, one of them inserted
\* next to a matched anchor and one by the branch without anchor, was ordered.
C1_Witness ==
    /\ pc = "done"
    /\ Len(regular) >= 1
    /\ Len(masked) >= 2
    /\ last_insert.anchor = None
    /\ \E i \in 1..Len(masked) : BestRegularId(masked[i], regular_order, regular) # None

\* C2: a page rectangle without positive width and height, or an empty
\* element list, gives the empty sequence.
C2_InvalidRectOrEmptyInputGivesEmpty ==
    (pc = "done" /\ (InvalidRect \/ elements = <<>>)) => result = <<>>

\* C3: right after a masked element with a best anchor is inserted, its id
\* is at the index just before the anchor's.
C3_InsertedImmediatelyBeforeAnchor ==
    (pc = "merge" /\ ~InvalidRect /\ last_insert.anchor # None) =>
        \E i \in 1..(Len(result) - 1) :
            /\ result[i] = Unwrap(last_insert.id)
            /\ result[i + 1] = Unwrap(last_insert.anchor)

\* The page of C4: one masked CrossLayout element spanning 80% of the page
\* width, every other element unmasked Regular text lying entirely below
\* it, in two columns (two horizontal extents, one left of the other).
IsTitlePage ==
    /\ ~InvalidRect
    /\ \E t \in 1..Len(elements) :
          /\ elements[t].label = "CrossLayout"
          /\ elements[t].mask
          /\ 10 * Width(elements[t]) = 8 * (rect[3] - rect[1])
          /\ \A i \in 1..Len(elements) : i # t =>
                /\ elements[i].label = "Regular"
                /\ ~elements[i].mask
                /\ elements[i].y1 >= elements[t].y2
          /\ \E i, j \in 1..Len(elements) :
                /\ i # t /\ j # t /\ elements[i].x2 <= elements[j].x1
                /\ \A k \in 1..Len(elements) : k # t =>
                      \/ (elements[k].x1 = elements[i].x1 /\ elements[k].x2 = elements[i].x2)
                      \/ (elements[k].x1 = elements[j].x1 /\ elements[k].x2 = elements[j].x2)

TitleId == (CHOOSE e \in {elements[i] : i \in 1..Len(elements)} : e.mask).id

\* C4: on such a page the CrossLayout element's id is the first id returned.
C4_CrossLayoutTitleFirst ==
    (pc = "done" /\ IsTitlePage) => result[1] = TitleId

\* C5: partition_by_mask puts each element in exactly one group and keeps
\* the input's relative order inside each group.
C5_PartitionDisjointExhaustiveOrdered ==
    pc \in {"cut", "merge", "done", "diverged"} =>
        /\ IdSet(masked) \cap IdSet(regular) = {}
        /\ IdSet(masked) \cup IdSet(regular) = IdSet(elements)
        /\ Len(masked) + Len(regular) = Len(elements)
        /\ masked = Restrict(elements, IdSet(masked))
        /\ regular = Restrict(elements, IdSet(regular))
        /\ (elements = <<>> => masked = <<>> /\ regular = <<>>)

\* C5 witness: a page was partitioned into regular elements and masked
\* ones, one masked by its flag and one by its width and overlaps.
C5_Witness ==
    /\ pc = "cut"
    /\ Len(regular) >= 1
    /\ \E i, j \in 1..Len(masked) : masked[i].mask /\ ~masked[j].mask

\* C6: the recursive cutter terminates: no call of recursive_cut calls
\* itself with its own arguments (stated for pages of positive width and
\* height, where the claim fails already).
C6_CutterTerminates == ~InvalidRect => pc # "diverged"

\* C10: a cut the cutter recurses on has at least one element on each side.
C10_NoCutWithEmptySide ==
    (~InvalidRect /\ last_cut.kind \in {"vertical", "horizontal"}) =>
        \A i \in 1..Len(last_cut.sizes) : last_cut.sizes[i] > 0

----------------------------------------------------------------------------
(* Pages of vertically stacked blocks                                      *)

\* The largest number of stacked blocks, the largest height of a block, the
\* largest margin above and below the stack, and the largest excess of a
\* gap between two blocks over min_cut_threshold.
MaxStack == 3

MaxBlockHeight == 2

MaxMargin == 2

MaxGapExcess == 1

\* The width of the page of stacked blocks.
StackPageWidth == 4

\* y1 of block k of a stack with top margin m, heights hs and gaps
\* thr + es[j] between block j and block j + 1
RECURSIVE StackTop(_, _, _, _, _)
StackTop(hs, es, m, thr, k) ==
    IF k = 1 THEN m
    ELSE StackTop(hs, es, m, thr, k - 1) + hs[k - 1] + thr + es[k - 1]

\* The blocks from top to bottom, block k with id k, all with the
\* horizontal extent xs.
StackBlocks(n, hs, es, m, thr, xs) ==
    [k \in 1..n |->
        Elem(k, xs[1], StackTop(hs, es, m, thr, k), xs[2],
             StackTop(hs, es, m, thr, k) + hs[k], "Regular", FALSE)]

StackExtents == {<<0, 4>>, <<1, 4>>, <<1, 3>>}

InitStack ==
    \E n \in 1..MaxStack, cfg \in Configs :
    \E hs \in [1..n -> 1..MaxBlockHeight], es \in [1..n -> 0..MaxGapExcess],
       m \in 0..MaxMargin, below \in 0..MaxMargin, xs \in StackExtents,
       order \in Permutations(1..n) :
        LET blocks == StackBlocks(n, hs, es, m, cfg.min_cut_threshold, xs)
        IN  /\ es[n] = 0
            /\ InitWith([i \in 1..n |-> blocks[order[i]]],
                        <<0, 0, StackPageWidth, blocks[n].y2 + below>>, cfg)

NextStack == Partition \/ CutStep \/ StartMerge \/ Return

SpecStack == InitStack /\ [][NextStack]_vars

\* Every element is unmasked Regular text, all elements have the same
\* horizontal extent, and any two are separated vertically by an empty gap
\* of at least min_cut_threshold.
IsStackedPage ==
    /\ ~InvalidRect
    /\ elements # <<>>
    /\ \A i \in 1..Len(elements) :
          /\ elements[i].label = "Regular" /\ ~elements[i].mask
          /\ elements[i].x1 = elements[1].x1 /\ elements[i].x2 = elements[1].x2
    /\ \A i, j \in 1..Len(elements) : i # j =>
          \/ elements[i].y2 + config.min_cut_threshold <= elements[j].y1
          \/ elements[j].y2 + config.min_cut_threshold <= elements[i].y1

\* The element of the input with the given id
ById(id) == Unwrap(FindById(elements, id))

TopToBottom(ids) ==
    \A i, j \in 1..Len(ids) : i < j => ById(ids[i]).y1 < ById(ids[j]).y1

\* C7: compute_order returns the ids of vertically stacked blocks from top
\* to bottom.
C7_StackedBlocksTopToBottom ==
    IsStackedPage => /\ pc # "diverged"
                     /\ pc = "done" => (IsPermutation(result, Ids(elements))
                                        /\ TopToBottom(result))

\* The same without termination: whenever compute_order returns.
C7_ReturnedTopToBottom ==
    (IsStackedPage /\ pc = "done") => TopToBottom(result)

----------------------------------------------------------------------------
(* find_largest_gap against the longest run of empty bins                  *)

\* <<start, length>> of every maximal run of zero-count bins (0-based start)
ZeroRuns(h) ==
    {<<a - 1, b - a + 1>> : <<a, b>> \in
        {p \in (1..Len(h)) \X (1..Len(h)) :
            /\ p[1] <= p[2]
            /\ \A k \in p[1]..p[2] : h[k] = 0
            /\ (p[1] = 1 \/ h[p[1] - 1] # 0)
            /\ (p[2] = Len(h) \/ h[p[2] + 1] # 0)}}

\* The index the gap search is to return: start + length / 2 of the longest
\* maximal run of at least min_gap empty bins, the earliest of the longest.
LongestRunCenter(h, min_gap) ==
    LET runs == {r \in ZeroRuns(h) : r[2] >= min_gap}
    IN  IF runs = {} THEN None
        ELSE LET best == CHOOSE r \in runs :
                             \A q \in runs : q[2] < r[2] \/ (q[2] = r[2] /\ q[1] >= r[1])
             IN  Some(best[1] + best[2] \div 2)

\* C9: find_largest_gap returns the center of the longest maximal run of at
\* least min_gap_bins empty bins (the earliest such run), and None when
\* there is none; the returned bin is empty.
C9_GapIsCenterOfLongestRun ==
    pc = "gap_done" =>
        /\ gap = LongestRunCenter(histogram, min_gap_size)
        /\ gap # None => histogram[Unwrap(gap) + 1] = 0

----------------------------------------------------------------------------
(* The cutter at two histogram resolutions                                 *)

\* The cuts of recursive_cut on frame f that divide the elements: a cut
\* with an empty side only shrinks the rectangle and is passed over.  A
\* node is the axis, the ids on each side and the two subtrees; a leaf is
\* the ids returned.
RECURSIVE CutTree(_, _)
CutTree(f, cfg) ==
    LET node(call) ==
            IF call.calls = <<>> THEN [kind |-> call.kind, ids |-> call.ids]
            ELSE IF call.calls[1] = f \/ call.calls[2] = f THEN [kind |-> "diverged"]
            ELSE IF call.calls[1].els = <<>> THEN CutTree(call.calls[2], cfg)
            ELSE IF call.calls[2].els = <<>> THEN CutTree(call.calls[1], cfg)
            ELSE [kind |-> call.kind,
                  sides |-> <<IdSet(call.calls[1].els), IdSet(call.calls[2].els)>>,
                  sub |-> <<CutTree(call.calls[1], cfg), CutTree(call.calls[2], cfg)>>]
    IN  node(recursive_cut(f, cfg))

\* The ids a tree returns, in order; <<>> for a tree that diverges.
RECURSIVE TreeOrder(_)
TreeOrder(t) ==
    IF t.kind = "diverged" THEN <<>>
    ELSE IF t.kind \in {"vertical", "horizontal"}
         THEN TreeOrder(t.sub[1]) \o TreeOrder(t.sub[2])
         ELSE t.ids

\* The other of the two resolutions 1 bin/px and 1/2 bin/px
OtherScale(cfg) == [cfg EXCEPT !.scale_den = 3 - cfg.scale_den]

\* Blocks of height 2 or 4, gaps of 2 * WideGapSteps + 0, 2, .. px, margins
\* 0, 2, ..: every coordinate is even, so that a bin of either resolution is
\* empty or full, and every gap between two blocks spans at least
\* WideGapSteps bins of the coarser resolution.
ResMaxStack == 3

ResMaxSteps == 2

\* Half the smallest gap between two blocks, in px; min_cut_threshold is
\* that smallest gap.
WideGapSteps == 2

InitRes ==
    \E n \in 1..ResMaxStack, den \in {1, 2} :
    \E hs \in [1..n -> {2, 4}], es \in [1..n -> {2 * k : k \in 0..ResMaxSteps}],
       m \in {2 * k : k \in 0..ResMaxSteps}, below \in {2 * k : k \in 0..ResMaxSteps},
       order \in Permutations(1..n) :
        LET blocks == StackBlocks(n, hs, es, m, 2 * WideGapSteps, <<0, 4>>)
        IN  /\ es[n] = 0
            /\ InitWith([i \in 1..n |-> blocks[order[i]]],
                        <<0, 0, StackPageWidth, blocks[n].y2 + below>>,
                        Config(2 * WideGapSteps, 1, den, 1))

SpecRes == InitRes /\ [][NextStack]_vars

RootFrame == Frame(regular, rect[1], rect[2], rect[3], rect[4])

\* C8: at the two resolutions the cutter discovers the same cuts (same axis,
\* same two sides at every step) and returns the same order.
C8_SameCutsAtBothResolutions ==
    pc = "done" => CutTree(RootFrame, config) = CutTree(RootFrame, OtherScale(config))

\* The same for the returned order alone.
C8_SameOrderAtBothResolutions ==
    pc = "done" => regular_order = TreeOrder(CutTree(RootFrame, OtherScale(config)))

\* The tree of cuts is the one the state machine went through.
CutTreeAgrees ==
    pc = "done" => regular_order = TreeOrder(CutTree(RootFrame, config))

\* Every cut coordinate is an integer.
CutExact ==
    \A i \in 1..Len(stack) :
        /\ (stack[i].x_max - stack[i].x_min) * config.scale_num % config.scale_den = 0
        /\ (stack[i].y_max - stack[i].y_min) * config.scale_num % config.scale_den = 0

----------------------------------------------------------------------------
(* Pages in pixels                                                         *)

\* The largest number of elements on such a page.
MaxLayoutElems == 3

\* A 256 x 256 px page with a left column (x 0..96) and a right column
\* (x 128..224, its left edge more than 100 px from the left column's):
\* text blocks, a banner across both columns, figures, an unmasked footer
\* and an unmasked side note that are not Regular (no masked figure may be
\* placed after them).
LayoutTemplates ==
    { Elem(31, 0, 96, 96, 160, "Regular", FALSE),        \* left column, text
      Elem(32, 128, 0, 224, 64, "Regular", FALSE),       \* right column, text, higher up
      Elem(33, 64, 32, 192, 128, "CrossLayout", TRUE),   \* banner over both text blocks
      Elem(34, 128, 160, 224, 224, "Vision", TRUE),      \* figure, right column
      Elem(35, 128, 226, 224, 250, "Vision", TRUE),      \* figure right below it
      Elem(36, 0, 0, 96, 48, "Vision", TRUE),            \* figure, top of the left column
      Elem(37, 0, 232, 224, 256, "CrossLayout", FALSE),  \* footer across the page
      Elem(38, 64, 176, 112, 208, "HorizontalTitle", FALSE),  \* side note
      Elem(39, 32, 120, 160, 200, "Regular", FALSE) }    \* wide block at the page's center

LayoutPages(n) ==
    {s \in UNION {[1..k -> LayoutTemplates] : k \in 0..n} :
        \A i, j \in 1..Len(s) : i # j => s[i] # s[j]}

\* The configuration of these pages: a minimum gap of 16 px, one bin per
\* 8 px (the page is 32 bins wide and high), the default same_row_tolerance
\* of 10 px.
LayoutConfig == Config(16, 1, 8, 10)

InitLayout ==
    \E els \in LayoutPages(MaxLayoutElems) :
        InitWith(els, <<0, 0, 256, 256>>, LayoutConfig)

SpecLayout == InitLayout /\ [][Next]_vars

----------------------------------------------------------------------------
(* Claims about the reinsertion matcher                                    *)

\* The ids of the occupants of res that are eligible anchors of m: their
\* priority is at least m's.
EligibleOccupants(m, res) ==
    {res[i] : i \in {k \in 1..Len(res) :
        label_priority(ById(res[k]).label) >= label_priority(m.label)}}

\* C11: the anchors a masked element is matched against are the occupants
\* of the growing result, earlier-placed masked elements included, that have
\* at least its priority: the anchor chosen is one of them, one is chosen
\* whenever there is one, and it is the best of them.
C11_AnchorsAreEligibleOccupantsOfResult ==
    (pc = "merge" /\ last_insert.id # None) =>
        LET m == ById(Unwrap(last_insert.id))
            eligible == EligibleOccupants(m, last_insert.before)
        IN  /\ last_insert.anchor \subseteq eligible
            /\ (eligible # {} /\ Max(Width(m), Height(m)) > 0) => last_insert.anchor # None
            /\ last_insert.anchor = BestRegularId(m, last_insert.before, elements)

\* The part of C11 about eligibility alone: the chosen anchor has at least
\* the priority of the masked element.
C11_ChosenAnchorIsEligible ==
    (pc = "merge" /\ last_insert.id # None) =>
        last_insert.anchor \subseteq
            EligibleOccupants(ById(Unwrap(last_insert.id)), last_insert.before)

\* The index C12 describes for a masked element m without eligible anchor:
\* before the first occupant of res, regular or placed earlier, whose
\* vertical center lies below m's and, unless m is wider than 60% of the
\* horizontal extent of the regular elements, whose left edge is within
\* 100 px of m's; the end of res when there is none.
FallbackIndexOverOccupants(m, res) ==
    LET extent == compute_page_width(regular)
        wide == 10 * Width(m) > 6 * extent
        below(i) == /\ Cy2(ById(res[i])) > Cy2(m)
                    /\ (wide \/ Abs(ById(res[i]).x1 - m.x1) < 100)
        firsts == {i \in 1..Len(res) : below(i) /\ \A j \in 1..(i - 1) : ~below(j)}
    IN  IF firsts = {} THEN Len(res) ELSE (CHOOSE i \in firsts : TRUE) - 1

\* C12: a masked element for which no eligible anchor was found is inserted
\* at that index.
C12_FallbackInsertsBeforeFirstOccupantBelow ==
    (pc = "merge" /\ last_insert.id # None /\ last_insert.anchor = None) =>
        LET m == ById(Unwrap(last_insert.id))
        IN  result = VecInsert(last_insert.before,
                               FallbackIndexOverOccupants(m, last_insert.before), m.id)

\* The full 4-component distance of m to r (multiplied by 10 * max_dim).
FullDistance(m, r) ==
    LET t == DistanceTerms(m, r)
    IN  IF Max(Width(m), Height(m)) = 0 THEN Infinity
        ELSE Fin(t[1] + t[2] + t[3] + t[4])

\* The candidates of m in the order they are scanned: the ids of order whose
\* element has at least m's priority.
EligibleCandidates(m, order, regular_elements) ==
    SelectSeq(order, LAMBDA id :
        /\ FindById(regular_elements, id) # None
        /\ label_priority(Unwrap(FindById(regular_elements, id)).label)
               >= label_priority(m.label))

\* The first candidate whose full distance is the least one (and finite).
FirstMinimum(m, candidates, regular_elements) ==
    LET dist(i) == FullDistance(m, Unwrap(FindById(regular_elements, candidates[i])))
        firsts == {i \in 1..Len(candidates) :
                      /\ ~dist(i).inf
                      /\ \A j \in 1..Len(candidates) : ~DistLt(dist(j), dist(i))
                      /\ \A j \in 1..(i - 1) : DistLt(dist(i), dist(j))}
    IN  {candidates[i] : i \in firsts}

\* C16: the anchor selected with early-exit pruning is the first minimum of
\* the full distance over the eligible candidates.
C16_PruningSelectsFirstMinimum ==
    (pc = "merge" /\ last_insert.id # None) =>
        LET m == ById(Unwrap(last_insert.id))
        IN  last_insert.anchor =
                FirstMinimum(m, EligibleCandidates(m, regular_order, regular), regular)

----------------------------------------------------------------------------
(* The fallback sort                                                       *)

\* The largest number of elements of a page that is sorted, and the
\* largest top edge of a box.
MaxSortElems == 3

MaxSortTop == 2

\* Unmasked Regular boxes of 2 x 2 px with left edge 0, 2 or 4 and top edge
\* 0..MaxSortTop; the element at index i has id i.
SortBoxes == {<<x, y>> : x \in {0, 2, 4}, y \in 0..MaxSortTop}

SortPages(n) ==
    UNION {{[i \in 1..k |-> Elem(i, b[i][1], b[i][2], b[i][1] + 2, b[i][2] + 2,
                                 "Regular", FALSE)] : b \in [1..k -> SortBoxes]} :
           k \in 0..n}

\* A minimum gap wider than the page: no axis yields a cut and the regular
\* elements go to sort_by_position; same_row_tolerance is 2 px (boxes whose
\* top edges differ by 1 are in the same row, by 2 are not).
SortConfig == Config(100, 1, 1, 2)

InitSort ==
    \E els \in SortPages(MaxSortElems) : InitWith(els, <<0, 0, 8, 8>>, SortConfig)

SpecSort == InitSort /\ [][NextStack]_vars

\* The ids the last call of recursive_cut returned by sorting.
SortedIds == SubSeq(regular_order, Len(regular_order) - last_cut.n + 1, Len(regular_order))

SameRow(a, b) == Abs(Cy2(a) - Cy2(b)) < 2 * config.same_row_tolerance

\* a may come before b: in the same row b's horizontal center is not the
\* smaller one, in different rows a's vertical center is the smaller one.
PairInOrder(a, b) ==
    IF SameRow(a, b) THEN Cx2(a) <= Cx2(b) ELSE Cy2(a) < Cy2(b)

\* The elements with the given ids, in that order
Lookup(ids) == SelectSeq([i \in 1..Len(ids) |-> ById(ids[i])], LAMBDA e : TRUE)

PairwiseOrdered(ids) ==
    \E es \in {Lookup(ids)} :
        \A i, j \in 1..Len(es) : i < j => PairInOrder(es[i], es[j])

\* Being in the same row is transitive on the elements with these ids (no
\* chain a, b, c with a and b, b and c in the same row but not a and c).
RowsAreTransitive(ids) ==
    \E es \in {Lookup(ids)} :
        \A i, j, k \in 1..Len(es) :
            (SameRow(es[i], es[j]) /\ SameRow(es[j], es[k])) => SameRow(es[i], es[k])

SomeOrderIsPairwiseOrdered ==
    last_cut.kind = "sort" =>
        \E p \in Permutations(1..Len(SortedIds)) :
            PairwiseOrdered([i \in 1..Len(SortedIds) |-> SortedIds[p[i]]])

----------------------------------------------------------------------------
(* The masking rule                                                        *)

\* The k-th smallest of the widths of els (k = 1 the smallest)
KthSmallestWidth(els, k) ==
    CHOOSE v \in {Width(els[i]) : i \in 1..Len(els)} :
        /\ Cardinality({i \in 1..Len(els) : Width(els[i]) < v}) < k
        /\ Cardinality({i \in 1..Len(els) : Width(els[i]) <= v}) >= k

\* Twice the median width: the middle width of an odd count, the average of
\* the two middle widths of an even count.
TwiceMedianWidth(els) ==
    IF Len(els) % 2 = 1 THEN 2 * KthSmallestWidth(els, Len(els) \div 2 + 1)
    ELSE KthSmallestWidth(els, Len(els) \div 2) + KthSmallestWidth(els, Len(els) \div 2 + 1)

\* The number of other input elements whose box strictly overlaps the box
\* of elements[i] on both axes
OverlapsOfInput(i) ==
    Cardinality({j \in 1..Len(elements) :
        /\ j # i
        /\ elements[i].x1 < elements[j].x2 /\ elements[j].x1 < elements[i].x2
        /\ elements[i].y1 < elements[j].y2 /\ elements[j].y1 < elements[i].y2})

\* The rule of C14 for elements[i]: its flag, or a width above 1.3 times
\* the median width together with at least 2 overlaps.
MaskedByFlagOrWidth(i) ==
    \/ elements[i].mask
    \/ (10 * 2 * Width(elements[i]) > 13 * TwiceMedianWidth(elements)
            /\ OverlapsOfInput(i) >= 2)

MaskedByWidthReached ==
    /\ pc = "cut"
    /\ \E i \in 1..Len(masked) : ~masked[i].mask

----------------------------------------------------------------------------
(* The density ratio and the order of the axes                             *)

\* The largest number of elements of such a page.
MaxAxisElems == 3

\* A 20 x 20 px page with a cell at the top left and a cell at the bottom
\* right, separated by an empty gap on both axes.  No element has the mask
\* flag; the CrossLayout boxes have width / height 1 and 9/10, and two boxes
\* have no height.
AxisTemplates ==
    { Elem(41, 0, 0, 4, 4, "Regular", FALSE),          \* top left, 4 x 4
      Elem(42, 10, 10, 14, 14, "Regular", FALSE),      \* bottom right, 4 x 4
      Elem(43, 8, 8, 17, 18, "CrossLayout", FALSE),    \* bottom right, 9 x 10
      Elem(44, 8, 8, 18, 18, "CrossLayout", FALSE),    \* bottom right, 10 x 10
      Elem(45, 0, 0, 4, 4, "CrossLayout", FALSE),      \* top left, 4 x 4
      Elem(46, 10, 12, 14, 12, "Regular", FALSE),      \* bottom right, no height
      Elem(47, 0, 2, 4, 2, "CrossLayout", FALSE) }     \* top left, no height

AxisPages(n) ==
    {s \in UNION {[1..k -> AxisTemplates] : k \in 0..n} :
        \A i, j \in 1..Len(s) : i # j => s[i] # s[j]}

\* One bin per pixel, a minimum gap of 2 px, a row tolerance of 1 px.
AxisConfig == Config(2, 1, 1, 1)

InitAxis ==
    \E els \in AxisPages(MaxAxisElems) : InitWith(els, <<0, 0, 20, 20>>, AxisConfig)

SpecAxis == InitAxis /\ [][Next]_vars

\* The product of the heights of the elements of nonzero height
RECURSIVE HeightProduct(_, _)
HeightProduct(els, k) ==
    IF k = 0 THEN 1
    ELSE (IF Height(els[k]) = 0 THEN 1 ELSE Height(els[k])) * HeightProduct(els, k - 1)

\* The sum of width / height over the elements of els of nonzero height
\* that are CrossLayout (cross) or are not (~cross), multiplied by
\* HeightProduct
RECURSIVE AspectSum(_, _, _)
AspectSum(els, k, cross) ==
    IF k = 0 THEN 0
    ELSE AspectSum(els, k - 1, cross)
         + (IF Height(els[k]) # 0 /\ ((els[k].label = "CrossLayout") <=> cross)
            THEN Width(els[k]) * (HeightProduct(els, Len(els)) \div Height(els[k]))
            ELSE 0)

\* The density ratio of C15 is > 0.9: (sum over CrossLayout) / (sum over the
\* others), 1.0 when the sum over the others is 0.
RatioAbove09(els) ==
    LET cross == AspectSum(els, Len(els), TRUE)
        others == AspectSum(els, Len(els), FALSE)
    IN  IF others = 0 THEN TRUE ELSE 10 * cross > 9 * others

\* C15: a call of recursive_cut on at least 2 elements attempts the vertical
\* cut first exactly when the density ratio is > 0.9; it cuts on the
\* preferred axis whenever that axis has a qualifying gap (so with a gap on
\* both axes the split is left/right iff the ratio is > 0.9), on the other
\* axis only when the preferred one has none, and sorts only when neither
\* has one.
C15_AxisOrderFollowsDensityRatio ==
    [][(pc = "cut" /\ stack # <<>> /\ Len(Head(stack).els) >= 2) =>
        LET f == Head(stack)
            above == RatioAbove09(f.els)
            v == find_vertical_cut(f.els, f.x_min, f.x_max, config) # None
            h == find_horizontal_cut(f.els, f.y_min, f.y_max, config) # None
        IN  /\ last_cut'.axis_first = (IF above THEN "vertical" ELSE "horizontal")
            /\ (v /\ h) => (last_cut'.kind = "vertical" <=> above)
            /\ last_cut'.kind = "vertical" <=> (v /\ (above \/ ~h))
            /\ last_cut'.kind = "horizontal" <=> (h /\ (~above \/ ~v))
            /\ last_cut'.kind = "sort" <=> (~v /\ ~h)]_vars

\* C15 witness: the first call of recursive_cut was on a page with a gap on
\* both axes, a CrossLayout element, another element and an element without
\* height, its density ratio was > 0.9 and it split left/right.
C15_Witness ==
    /\ pc = "cut"
    /\ regular_order = <<>>
    /\ last_cut.n = Len(regular)
    /\ last_cut.kind = "vertical"
    /\ last_cut.axis_first = "vertical"
    /\ \A i \in 1..Len(last_cut.sizes) : last_cut.sizes[i] > 0
    /\ find_horizontal_cut(regular, rect[2], rect[4], config) # None
    /\ \E i, j, k \in 1..Len(regular) :
          /\ regular[i].label = "CrossLayout" /\ Height(regular[i]) > 0
          /\ regular[j].label # "CrossLayout" /\ Height(regular[j]) > 0
          /\ Height(regular[k]) = 0

====
